---- MODULE Spec2Model ----
(***************************************************************************)
(* Deal Admin Hub backend (src/main.py, src/schemas.py).                   *)
(*                                                                         *)
(* The state is the document store's four collections (deal, mou, invoice, *)
(* receipt) plus, for every request being served, the handler's position   *)
(* and local variables.  Every store call of a handler is one atomic step; *)
(* handlers of different requests interleave between store calls, and a    *)
(* handler may stop between two store calls (no transaction wraps them).   *)
(*                                                                         *)
(* A collection is a sequence in insertion order; a document's identifier  *)
(* is its position in its collection.  Opaque blobs that no handler reads  *)
(* back (my_details, terms, bank_details, invoice_number, dates, currency, *)
(* payment_method, payment_reference) are left out of the documents.       *)
(* An Optional field is a set: {} is None and {v} is the value v.          *)
(***************************************************************************)
EXTENDS Integers, Sequences, FiniteSets, TLC

VARIABLES deal, mou, invoice, receipt, pc, loc, resp

vars == <<deal, mou, invoice, receipt, pc, loc, resp>>
store == <<deal, mou, invoice, receipt>>

\* ------------------------------------------------------------ bounds
\* Documents the store may hold, the four collections together.
MaxDocs == 4

\* Requests served at the same time.
Threads == {1, 2}

\* ------------------------------------------------------------ inputs
None == {}
Some(v) == {v}

ClientNames == {"Acme", "Globex"}
ProjectNames == {"Website", "App"}
\* Readings of the clock, datetime.utcnow().
Instants == {1, 2}
\* SignMouRequest.name and .title
Signers == { [name |-> "Ann", title |-> "CEO"], [name |-> "Bob", title |-> "CTO"] }
\* CreateInvoiceRequest.amount
Amounts == {500}
\* MarkPaidRequest.amount_received
AmountsReceived == {500, 250}

\* CreateMouRequest.client_details: the two keys create_mou reads.
ClientDetails ==
    { [client_name |-> Some("Acme"), name |-> None],
      [client_name |-> None, name |-> Some("Globex")],
      [client_name |-> Some(""), name |-> Some("Acme")],
      [client_name |-> Some("Globex"), name |-> Some("Acme")] }

\* CreateMouRequest.project: the key create_mou reads.
ProjectBlobs == { [name |-> Some(p)] : p \in ProjectNames }


\* ------------------------------------------------------------ schemas
\* Deal(client_name, project_name); status defaults to "active".
Deal(c, p) == [client_name |-> c, project_name |-> p, status |-> "active"]

\* Mou(...): the signature fields default to None.
Mou(did, st, tok) ==
    [deal_id |-> did, status |-> st, sign_token |-> tok,
     signed_at |-> None, client_signature_name |-> None,
     client_signature_title |-> None]

\* Invoice(...): the payment field defaults to None.
Invoice(did, c, p, amt, st, tok) ==
    [deal_id |-> did, client_name |-> c, project_name |-> p, amount |-> amt,
     status |-> st, view_token |-> tok, amount_received |-> None]

Receipt(tok, did, orig, paid) ==
    [invoice_token |-> tok, deal_id |-> did, original_amount |-> orig,
     amount_paid |-> paid]

\* ------------------------------------------------------------ store adapter
\* create_document(collection, document): appends the document (stamped with
\* its creation time, so insertion order is creation order) and returns the
\* new identifier.
CreateDocument(coll, doc) == Append(coll, doc)
InsertedId(coll) == Len(coll) + 1

\* find_one picks among the matching positions: without a sort the first
\* inserted, with sort=[("created_at", -1)] the last inserted; 0 is "no match".
First(hits) == IF hits = {} THEN 0 ELSE CHOOSE i \in hits : \A j \in hits : i <= j
Latest(hits) == IF hits = {} THEN 0 ELSE CHOOSE i \in hits : \A j \in hits : i >= j

\* collection("deal").find_one({"client_name": c, "project_name": p})
FindDeal(c, p) ==
    First({i \in 1 .. Len(deal) :
             deal[i].client_name = c /\ deal[i].project_name = p})

\* collection("mou").find_one({"sign_token": tok})
FindMou(tok) == First({i \in 1 .. Len(mou) : mou[i].sign_token = tok})

\* collection("invoice").find_one({"view_token": tok})
FindInvoice(tok) == First({i \in 1 .. Len(invoice) : invoice[i].view_token = tok})

\* collection("mou").find_one({"deal_id": did}, sort=[("created_at", -1)])
LatestMou(did) == Latest({i \in 1 .. Len(mou) : mou[i].deal_id = did})

\* collection("invoice").find_one({"deal_id": did}, sort=[("created_at", -1)])
LatestInvoice(did) == Latest({i \in 1 .. Len(invoice) : invoice[i].deal_id = did})

\* collection("receipt").find_one({"invoice_token": tok}, sort=[("created_at", -1)])
LatestReceipt(tok) == Latest({i \in 1 .. Len(receipt) : receipt[i].invoice_token = tok})

\* ------------------------------------------------------------ handler locals
NoLoc ==
    [op |-> "", client_name |-> "", project_name |-> "", token |-> None,
     agree |-> FALSE, amount |-> None,
     amount_received |-> None, deal_id |-> None]

\* A handler's response: the HTTP status code and the body's fields.
NoResp == [code |-> None, status |-> "", id |-> None, token |-> None, snap |-> None]

Ok(st, id, tok) ==
    [code |-> Some(200), status |-> st, id |-> id, token |-> tok, snap |-> None]
HTTPException(code) ==
    [code |-> Some(code), status |-> "", id |-> None, token |-> None, snap |-> None]

\* ------------------------------------------------------------ tokens
\* Tokens the store or a request holds.
TokensInUse ==
    {mou[i].sign_token : i \in 1 .. Len(mou)}
      \cup {invoice[i].view_token : i \in 1 .. Len(invoice)}
      \cup UNION {loc[t].token : t \in Threads}

\* uuid4().hex: a token nothing holds yet.  Which one is immaterial; the model
\* takes the least.
uuid4 == CHOOSE k \in 1 .. (Cardinality(TokensInUse) + 1) : k \notin TokensInUse

\* Tokens a client may present: the tokens in use and one that is not.
Tokens == TokensInUse \cup {uuid4}

\* ------------------------------------------------------------ model bound
\* Documents a request at position p may still insert.
Pending(p) ==
    CASE p = "ci_deal" -> 2
      [] p \in {"cm_mou", "ci_inv", "mp_update", "mp_insert"} -> 1
      [] OTHER -> 0

RECURSIVE SumPending(_)
SumPending(S) ==
    IF S = {} THEN 0
    ELSE LET t == CHOOSE x \in S : TRUE IN Pending(pc[t]) + SumPending(S \ {t})

\* Request t may start if the n documents it may insert still fit.
Room(t, n) ==
    Len(deal) + Len(mou) + Len(invoice) + Len(receipt)
      + SumPending(Threads \ {t}) + n <= MaxDocs

\* ------------------------------------------------------------ scheduling
\* Delivering a response touches nothing the requests share, so it is taken
\* before any request moves on: no request is answered from a store that
\* another request has changed since.
Delivered == \A t \in Threads : pc[t] # "done"

Init ==
    /\ deal = <<>>
    /\ mou = <<>>
    /\ invoice = <<>>
    /\ receipt = <<>>
    /\ pc = [t \in Threads |-> "idle"]
    /\ loc = [t \in Threads |-> NoLoc]
    /\ resp = [t \in Threads |-> NoResp]

\* ------------------------------------------------------------ create_mou
\* client_details.get("client_name") or client_details.get("name", "")
ClientNameOf(cd) ==
    IF cd.client_name # None /\ cd.client_name # Some("")
    THEN CHOOSE c \in cd.client_name : TRUE
    ELSE IF cd.name = None THEN "" ELSE CHOOSE c \in cd.name : TRUE

\* project.get("name", "")
ProjectNameOf(pr) == IF pr.name = None THEN "" ELSE CHOOSE p \in pr.name : TRUE

\* The Deal create_mou inserts: always a new one.
\* (Faulty variant: find-or-create, as create_invoice does.)
MouDeal_Dedup(c, p) ==
    LET d == FindDeal(c, p)
    IN IF d = 0 THEN [id |-> InsertedId(deal), coll |-> CreateDocument(deal, Deal(c, p))]
       ELSE [id |-> d, coll |-> deal]
MouDeal(c, p) ==
    [id |-> InsertedId(deal), coll |-> CreateDocument(deal, Deal(c, p))]

\* Lines 93-101: draw the token, build the Deal, insert it.
StartCreateMou(t, cd, pr) ==
    LET c == ClientNameOf(cd)
        p == ProjectNameOf(pr)
        d == MouDeal(c, p)
    IN /\ Room(t, 2)
       /\ deal' = d.coll
       /\ loc' = [loc EXCEPT ![t] =
                    [NoLoc EXCEPT !.op = "create_mou", !.client_name = c,
                                  !.project_name = p, !.token = Some(uuid4),
                                  !.deal_id = Some(d.id)]]
       /\ pc' = [pc EXCEPT ![t] = "cm_mou"]
       /\ resp' = [resp EXCEPT ![t] = NoResp]
       /\ UNCHANGED <<mou, invoice, receipt>>

CreateMou(t) ==
    /\ Delivered
    /\ pc[t] = "idle"
    /\ \E cd \in ClientDetails, pr \in ProjectBlobs : StartCreateMou(t, cd, pr)

\* The Mou create_mou stores.
\* (Faulty variant: stored as a draft.)
NewMou_Draft(did, tok) == Mou(did, "draft", tok)
NewMou(did, tok) == Mou(did, "sent", tok)

\* Lines 103-114: insert the Mou, return its identifier and the token.
CreateMouInsert(t) ==
    /\ Delivered
    /\ pc[t] = "cm_mou"
    /\ LET did == CHOOSE d \in loc[t].deal_id : TRUE
           tok == CHOOSE k \in loc[t].token : TRUE
       IN /\ mou' = CreateDocument(mou, NewMou(did, tok))
          /\ resp' = [resp EXCEPT ![t] = Ok("", Some(InsertedId(mou)), Some(tok))]
    /\ pc' = [pc EXCEPT ![t] = "done"]
    /\ UNCHANGED <<deal, invoice, receipt, loc>>

\* ------------------------------------------------------------ sign_mou
\* The update find_one_and_update applies to the matched Mou.
SignUpdate(m, name, title, ts) ==
    [m EXCEPT !.status = "signed", !.client_signature_name = Some(name),
              !.client_signature_title = Some(title), !.signed_at = Some(ts)]

\* The agreement check of line 126.
\* (Faulty variant: the check is skipped.)
AgreementMissing_Ignored(agree) == FALSE
AgreementMissing(agree) == ~agree

\* Lines 126-140, one atomic find-and-update.  ts is the clock's reading.
\* Once the handler has answered, loc keeps what identifies the request.
StartSignMou(t, tok, name, title, agree, ts) ==
    LET i == FindMou(tok)
    IN /\ loc' = [loc EXCEPT ![t] =
                    [NoLoc EXCEPT !.op = "sign_mou", !.token = Some(tok),
                                  !.agree = agree]]
       /\ pc' = [pc EXCEPT ![t] = "done"]
       /\ IF AgreementMissing(agree)
          THEN /\ resp' = [resp EXCEPT ![t] = HTTPException(400)]
               /\ mou' = mou
          ELSE IF i = 0
          THEN /\ resp' = [resp EXCEPT ![t] = HTTPException(404)]
               /\ mou' = mou
          ELSE /\ mou' = [mou EXCEPT ![i] = SignUpdate(mou[i], name, title, ts)]
               /\ resp' = [resp EXCEPT ![t] = Ok("signed", None, None)]
       /\ UNCHANGED <<deal, invoice, receipt>>

SignMou(t) ==
    /\ Delivered
    /\ pc[t] = "idle"
    /\ \E tok \in Tokens, s \in Signers, agree \in BOOLEAN, ts \in Instants :
          StartSignMou(t, tok, s.name, s.title, agree, ts)

\* ------------------------------------------------------------ create_invoice
\* Lines 147-150: the Deal create_invoice reuses, 0 if it must make one.
\* (Faulty variants: the filter drops client_name; the lookup is skipped.)
InvoiceDeal_ByProjectOnly(c, p) ==
    First({i \in 1 .. Len(deal) : deal[i].project_name = p})
InvoiceDeal_AlwaysNew(c, p) == 0
InvoiceDeal(c, p) == FindDeal(c, p)

\* Lines 145-151 and 155: draw the token, look the Deal up.
StartCreateInvoice(t, c, p, amt) ==
    LET d == InvoiceDeal(c, p)
    IN /\ Room(t, IF d = 0 THEN 2 ELSE 1)
       /\ loc' = [loc EXCEPT ![t] =
                    [NoLoc EXCEPT !.op = "create_invoice", !.client_name = c,
                                  !.project_name = p, !.token = Some(uuid4),
                                  !.amount = Some(amt),
                                  !.deal_id = IF d = 0 THEN None ELSE Some(d)]]
       /\ pc' = [pc EXCEPT ![t] = IF d = 0 THEN "ci_deal" ELSE "ci_inv"]
       /\ resp' = [resp EXCEPT ![t] = NoResp]
       /\ UNCHANGED <<deal, mou, invoice, receipt>>

CreateInvoice(t) ==
    /\ Delivered
    /\ pc[t] = "idle"
    /\ \E c \in ClientNames, p \in ProjectNames, amt \in Amounts :
          StartCreateInvoice(t, c, p, amt)

\* Lines 152-153: no Deal was found, insert one.
CreateInvoiceDeal(t) ==
    /\ Delivered
    /\ pc[t] = "ci_deal"
    /\ deal' = CreateDocument(deal, Deal(loc[t].client_name, loc[t].project_name))
    /\ loc' = [loc EXCEPT ![t].deal_id = Some(InsertedId(deal))]
    /\ pc' = [pc EXCEPT ![t] = "ci_inv"]
    /\ UNCHANGED <<mou, invoice, receipt, resp>>

\* The Invoice create_invoice stores.
\* (Faulty variant: stored as a draft.)
NewInvoice_Draft(did, c, p, amt, tok) == Invoice(did, c, p, amt, "draft", tok)
NewInvoice(did, c, p, amt, tok) == Invoice(did, c, p, amt, "sent", tok)

\* Lines 157-173: insert the Invoice, return its identifier and the token.
CreateInvoiceInsert(t) ==
    /\ Delivered
    /\ pc[t] = "ci_inv"
    /\ LET did == CHOOSE d \in loc[t].deal_id : TRUE
           tok == CHOOSE k \in loc[t].token : TRUE
           amt == CHOOSE a \in loc[t].amount : TRUE
       IN /\ invoice' = CreateDocument(invoice,
                 NewInvoice(did, loc[t].client_name, loc[t].project_name, amt, tok))
          /\ resp' = [resp EXCEPT ![t] = Ok("", Some(InsertedId(invoice)), Some(tok))]
    /\ pc' = [pc EXCEPT ![t] = "done"]
    /\ UNCHANGED <<deal, mou, receipt, loc>>

\* ------------------------------------------------------------ mark_invoice_paid
\* Lines 185-187: look the Invoice up; doc is the copy the handler keeps.
StartMarkPaid(t, tok, received) ==
    LET i == FindInvoice(tok)
    IN /\ Room(t, 1)
       /\ IF i = 0
          THEN /\ loc' = [loc EXCEPT ![t] =
                            [NoLoc EXCEPT !.op = "mark_invoice_paid",
                                          !.token = Some(tok)]]
               /\ resp' = [resp EXCEPT ![t] = HTTPException(404)]
               /\ pc' = [pc EXCEPT ![t] = "done"]
          ELSE /\ loc' = [loc EXCEPT ![t] =
                            [NoLoc EXCEPT !.op = "mark_invoice_paid",
                                          !.token = Some(tok),
                                          !.amount_received = Some(received),
                                          !.client_name = invoice[i].client_name,
                                          !.project_name = invoice[i].project_name,
                                          !.amount = Some(invoice[i].amount),
                                          !.deal_id = Some(invoice[i].deal_id)]]
               /\ resp' = [resp EXCEPT ![t] = NoResp]
               /\ pc' = [pc EXCEPT ![t] = "mp_update"]
       /\ UNCHANGED <<deal, mou, invoice, receipt>>

MarkInvoicePaid(t) ==
    /\ Delivered
    /\ pc[t] = "idle"
    /\ \E tok \in Tokens, received \in AmountsReceived : StartMarkPaid(t, tok, received)

\* The $set of lines 190-195.
\* (Faulty variant: the status is left as it was.)
PaidUpdate_Unpaid(inv, received) == [inv EXCEPT !.amount_received = Some(received)]
PaidUpdate(inv, received) ==
    [inv EXCEPT !.status = "paid", !.amount_received = Some(received)]

\* Lines 189-195: update_one on the Invoice with the token.
MarkPaidUpdate(t) ==
    /\ Delivered
    /\ pc[t] = "mp_update"
    /\ LET tok == CHOOSE k \in loc[t].token : TRUE
           received == CHOOSE a \in loc[t].amount_received : TRUE
           i == FindInvoice(tok)
       IN invoice' = IF i = 0 THEN invoice
                     ELSE [invoice EXCEPT ![i] = PaidUpdate(invoice[i], received)]
    /\ pc' = [pc EXCEPT ![t] = "mp_insert"]
    /\ UNCHANGED <<deal, mou, receipt, loc, resp>>

\* The Receipt of lines 197-209, built from doc and the request.
\* (Faulty variant: amount_paid copies the Invoice's amount.)
NewReceipt_OriginalAmount(tok, did, orig, received) == Receipt(tok, did, orig, orig)
NewReceipt(tok, did, orig, received) == Receipt(tok, did, orig, received)

\* Lines 197-211: insert the Receipt, return its identifier.
MarkPaidInsert(t) ==
    /\ Delivered
    /\ pc[t] = "mp_insert"
    /\ LET tok == CHOOSE k \in loc[t].token : TRUE
           did == CHOOSE d \in loc[t].deal_id : TRUE
           orig == CHOOSE a \in loc[t].amount : TRUE
           received == CHOOSE a \in loc[t].amount_received : TRUE
       IN receipt' = CreateDocument(receipt, NewReceipt(tok, did, orig, received))
    /\ resp' = [resp EXCEPT ![t] = Ok("paid", Some(InsertedId(receipt)), None)]
    /\ pc' = [pc EXCEPT ![t] = "done"]
    /\ UNCHANGED <<deal, mou, invoice, loc>>

\* ------------------------------------------------------------ deal_snapshot
Rule1 == "Next: Generate sign link and send to client."
Rule2 == "Next: Generate invoice and send."
Rule3 == "Next: Generate receipt and send."

\* str.capitalize() and str.lower() on the status vocabulary.
Capitalize(s) ==
    CASE s \in {"draft", "Draft"} -> "Draft"
      [] s \in {"sent", "Sent"} -> "Sent"
      [] s \in {"signed", "Signed"} -> "Signed"
      [] s \in {"paid", "Paid"} -> "Paid"
      [] OTHER -> s
Lower(s) ==
    CASE s \in {"draft", "Draft"} -> "draft"
      [] s \in {"sent", "Sent"} -> "sent"
      [] s \in {"signed", "Signed"} -> "signed"
      [] s \in {"paid", "Paid"} -> "paid"
      [] OTHER -> s

\* mou_status(), lines 230-235; m is the Mou's position, 0 for no Mou.
MouStatus(m) ==
    IF m = 0 THEN [status |-> "Draft", link |-> None]
    ELSE [status |-> Capitalize(mou[m].status),
          link |-> Some(<<"/sign/", mou[m].sign_token>>)]

\* invoice_status(), lines 237-242; i is the Invoice's position, 0 for none.
InvoiceStatus(i) ==
    IF i = 0 THEN [status |-> "Draft", link |-> None]
    ELSE [status |-> Capitalize(invoice[i].status),
          link |-> Some(<<"/invoice/", invoice[i].view_token>>)]

\* The next-step hint, lines 245-253; r is the Receipt's position, 0 for none.
\* (Faulty variant: rule 3 is missing.)
NextStep_NoRule3(ms, ins, r) ==
    IF ms = "draft" THEN Rule1
    ELSE IF ms = "signed" /\ ins = "draft" THEN Rule2
    ELSE ""
NextStep(ms, ins, r) ==
    IF ms = "draft" THEN Rule1
    ELSE IF ms = "signed" /\ ins = "draft" THEN Rule2
    ELSE IF ins = "paid" /\ r = 0 THEN Rule3
    ELSE ""

\* The Invoice and the Receipt deal_snapshot reads for Deal d (lines 225-228).
SnapshotInvoice(d) == LatestInvoice(d)
SnapshotReceipt(d) ==
    IF SnapshotInvoice(d) = 0 THEN 0
    ELSE LatestReceipt(invoice[SnapshotInvoice(d)].view_token)

\* The body deal_snapshot returns for Deal d (lines 224-262).
SnapshotBody(c, p, d) ==
    LET m == LatestMou(d)
        i == SnapshotInvoice(d)
        r == SnapshotReceipt(d)
    IN [client_name |-> c, project_name |-> p,
        mou |-> MouStatus(m), invoice |-> InvoiceStatus(i),
        receipt_available |-> (r # 0),
        next_step |-> NextStep(Lower(MouStatus(m).status),
                               Lower(InvoiceStatus(i).status), r)]

\* Lines 219-262.  The handler only reads.
StartDealSnapshot(t, c, p) ==
    LET d == FindDeal(c, p)
    IN /\ loc' = [loc EXCEPT ![t] =
                    [NoLoc EXCEPT !.op = "deal_snapshot", !.client_name = c,
                                  !.project_name = p]]
       /\ resp' = [resp EXCEPT ![t] =
                     IF d = 0 THEN HTTPException(404)
                     ELSE [Ok("", None, None) EXCEPT !.snap = Some(SnapshotBody(c, p, d))]]
       /\ pc' = [pc EXCEPT ![t] = "done"]
       /\ UNCHANGED <<deal, mou, invoice, receipt>>

DealSnapshot(t) ==
    /\ Delivered
    /\ pc[t] = "idle"
    /\ \E c \in ClientNames, p \in ProjectNames : StartDealSnapshot(t, c, p)

\* ------------------------------------------------------------ requests end
\* The response is delivered and the worker takes the next request.
Return(t) ==
    /\ pc[t] = "done"
    /\ pc' = [pc EXCEPT ![t] = "idle"]
    /\ loc' = [loc EXCEPT ![t] = NoLoc]
    /\ resp' = [resp EXCEPT ![t] = NoResp]
    /\ UNCHANGED <<deal, mou, invoice, receipt>>

\* A handler stops between two store calls (the process dies, a store call
\* raises): nothing it has written is undone, nothing more is written.
Interrupt(t) ==
    /\ Delivered
    /\ pc[t] \in {"cm_mou", "ci_deal", "ci_inv", "mp_update", "mp_insert"}
    /\ pc' = [pc EXCEPT ![t] = "idle"]
    /\ loc' = [loc EXCEPT ![t] = NoLoc]
    /\ resp' = [resp EXCEPT ![t] = NoResp]
    /\ UNCHANGED <<deal, mou, invoice, receipt>>

Next ==
    \E t \in Threads :
        \/ CreateMou(t)
        \/ CreateMouInsert(t)
        \/ SignMou(t)
        \/ CreateInvoice(t)
        \/ CreateInvoiceDeal(t)
        \/ CreateInvoiceInsert(t)
        \/ MarkInvoicePaid(t)
        \/ MarkPaidUpdate(t)
        \/ MarkPaidInsert(t)
        \/ DealSnapshot(t)
        \/ Return(t)
        \/ Interrupt(t)

Spec == Init /\ [][Next]_vars

\* ------------------------------------------------------------ end to end
\* One client, an otherwise quiet store: create_mou, then sign_mou on the
\* returned token, create_invoice for the same pair, mark_invoice_paid on the
\* returned token, deal_snapshot for the pair.  Each request is sent when the
\* response to the one before arrives.
E2EInit ==
    /\ deal \in {<<>>, <<Deal("Globex", "Website")>>}
    /\ mou = <<>>
    /\ invoice = <<>>
    /\ receipt = <<>>
    /\ pc = [t \in Threads |-> "idle"]
    /\ loc = [t \in Threads |-> NoLoc]
    /\ resp = [t \in Threads |-> NoResp]

Answered(t, op) ==
    pc[t] = "done" /\ loc[t].op = op /\ resp[t].code = Some(200)

E2ECreateMou(t) ==
    /\ \A u \in Threads : pc[u] = "idle"
    /\ \E cd \in ClientDetails, pr \in ProjectBlobs :
          /\ FindDeal(ClientNameOf(cd), ProjectNameOf(pr)) = 0
          /\ StartCreateMou(t, cd, pr)

E2ESignMou(t) ==
    /\ Answered(t, "create_mou")
    /\ \E tok \in resp[t].token, s \in Signers, ts \in Instants :
          StartSignMou(t, tok, s.name, s.title, TRUE, ts)

E2ECreateInvoice(t) ==
    /\ Answered(t, "sign_mou")
    /\ \E tok \in loc[t].token, amt \in Amounts :
          LET d == deal[mou[FindMou(tok)].deal_id]
          IN StartCreateInvoice(t, d.client_name, d.project_name, amt)

E2EMarkPaid(t) ==
    /\ Answered(t, "create_invoice")
    /\ \E tok \in resp[t].token, received \in AmountsReceived :
          StartMarkPaid(t, tok, received)

E2ESnapshot(t) ==
    /\ Answered(t, "mark_invoice_paid")
    /\ StartDealSnapshot(t, loc[t].client_name, loc[t].project_name)

E2ENext ==
    \E t \in Threads :
        \/ E2ECreateMou(t)
        \/ CreateMouInsert(t)
        \/ E2ESignMou(t)
        \/ E2ECreateInvoice(t)
        \/ CreateInvoiceInsert(t)
        \/ E2EMarkPaid(t)
        \/ MarkPaidUpdate(t)
        \/ MarkPaidInsert(t)
        \/ E2ESnapshot(t)

E2ESpec == E2EInit /\ [][E2ENext]_vars

\* ------------------------------------------------------------ shared notions
DealsFor(c, p) ==
    {i \in 1 .. Len(deal) : deal[i].client_name = c /\ deal[i].project_name = p}
MousOf(d) == {i \in 1 .. Len(mou) : mou[i].deal_id = d}
InvoicesOf(d) == {i \in 1 .. Len(invoice) : invoice[i].deal_id = d}
ReceiptsOf(tok) == {i \in 1 .. Len(receipt) : receipt[i].invoice_token = tok}
InvoicesWith(tok) == {i \in 1 .. Len(invoice) : invoice[i].view_token = tok}

\* The body of a deal_snapshot response that thread t holds.
SnapshotAnswers(t) == IF Answered(t, "deal_snapshot") THEN resp[t].snap ELSE {}

\* coll2 is coll1 with exactly one document appended.
OneMore(coll1, coll2) ==
    Len(coll2) = Len(coll1) + 1 /\ SubSeq(coll2, 1, Len(coll1)) = coll1

\* ------------------------------------------------------------ C1
\* C1: in the end-to-end run (create_mou, sign_mou, create_invoice,
\* mark_invoice_paid on a pair that had no Deal), from the moment the Invoice
\* is created there is exactly one Deal for the pair, referenced by the Mou
\* and by the Invoice, and the final deal_snapshot answers mou Signed, invoice
\* Paid, receipt available and an empty next step.
C1_EndToEnd ==
    \A t \in Threads :
        /\ (pc[t] = "done"
              /\ loc[t].op \in {"create_invoice", "mark_invoice_paid", "deal_snapshot"})
            => /\ Cardinality(DealsFor(loc[t].client_name, loc[t].project_name)) = 1
               /\ \A d \in DealsFor(loc[t].client_name, loc[t].project_name) :
                     MousOf(d) # {} /\ InvoicesOf(d) # {}
        /\ (pc[t] = "done" /\ loc[t].op = "deal_snapshot")
            => /\ resp[t].code = Some(200)
               /\ \A b \in resp[t].snap :
                     /\ b.mou.status = "Signed"
                     /\ b.invoice.status = "Paid"
                     /\ b.receipt_available = TRUE
                     /\ b.next_step = ""
               /\ resp[t].snap # None

C1_Witness ==
    \E t \in Threads :
        /\ Answered(t, "deal_snapshot")
        /\ resp[t].snap # None
        /\ Len(mou) = 1 /\ Len(invoice) = 1 /\ Len(receipt) = 1
        /\ invoice[1].deal_id = mou[1].deal_id

\* ------------------------------------------------------------ C2
\* C2 as stated: deal_snapshot never answers the rule-2 text.
C2_Rule2NeverFires ==
    \A t \in Threads : \A b \in SnapshotAnswers(t) : b.next_step # Rule2

\* C2 amended: deal_snapshot answers the rule-2 text exactly when the Deal's
\* latest Mou is signed and no Invoice references the Deal; once an Invoice
\* references the Deal rule 2 cannot fire, no stored Invoice being "draft".
\* The next step is always one of the three rule texts or empty.
C2_Rule2OnlyWithoutInvoice ==
    \A t \in Threads : \A b \in SnapshotAnswers(t) :
        LET d == FindDeal(loc[t].client_name, loc[t].project_name)
        IN /\ b.next_step \in {Rule1, Rule2, Rule3, ""}
           /\ b.next_step = Rule2
                <=> /\ MousOf(d) # {}
                    /\ mou[LatestMou(d)].status = "signed"
                    /\ InvoicesOf(d) = {}
           /\ InvoicesOf(d) # {} => b.invoice.status \in {"Sent", "Paid"}

C2_Witness ==
    \E t \in Threads : \E b \in SnapshotAnswers(t) :
        b.next_step = Rule2 /\ b.mou.status = "Signed" /\ b.invoice.status = "Draft"

\* ------------------------------------------------------------ C3
\* What one step of create_invoice in thread t does to the Deals.
C3_Lookup(t) ==
    LET found == DealsFor(loc'[t].client_name, loc'[t].project_name)
    IN /\ deal' = deal
       /\ IF found # {}
          THEN pc'[t] = "ci_inv" /\ loc'[t].deal_id # None /\ loc'[t].deal_id \subseteq found
          ELSE pc'[t] = "ci_deal" /\ loc'[t].deal_id = None

C3_NewDeal(t) ==
    /\ OneMore(deal, deal')
    /\ deal'[Len(deal')].client_name = loc[t].client_name
    /\ deal'[Len(deal')].project_name = loc[t].project_name
    /\ loc'[t].deal_id = Some(Len(deal'))

C3_Insert(t) ==
    /\ deal' = deal
    /\ OneMore(invoice, invoice')
    /\ invoice'[Len(invoice')].deal_id \in loc[t].deal_id
    /\ invoice'[Len(invoice')].deal_id \in
          DealsFor(invoice'[Len(invoice')].client_name,
                   invoice'[Len(invoice')].project_name)
    /\ invoice'[Len(invoice')].client_name = loc[t].client_name
    /\ invoice'[Len(invoice')].project_name = loc[t].project_name

\* C3: a create_invoice call that finds a Deal with the request's pair inserts
\* no Deal and stores the Invoice under that Deal's identifier; a call that
\* finds none inserts exactly one Deal with that pair and stores the Invoice
\* under the new identifier.
C3_FindOrCreateDeal ==
    [][\A t \in Threads :
          /\ (pc[t] = "idle" /\ loc'[t].op = "create_invoice") => C3_Lookup(t)
          /\ (pc[t] = "ci_deal" /\ pc'[t] = "ci_inv") => C3_NewDeal(t)
          /\ (pc[t] = "ci_inv" /\ pc'[t] = "done") => C3_Insert(t)]_vars

C3_Witness ==
    \E t \in Threads :
        /\ Answered(t, "create_invoice")
        /\ Len(deal) = 2 /\ Len(invoice) = 2 /\ Len(mou) = 0
        /\ deal[1].client_name = deal[2].client_name
        /\ deal[1].project_name # deal[2].project_name
        /\ invoice[1].deal_id = 2 /\ invoice[2].deal_id = 2

\* ------------------------------------------------------------ C4
\* C4 as stated: no Deal is referenced by both an Mou and an Invoice.
C4_NoDealShared ==
    \A d \in 1 .. Len(deal) : MousOf(d) = {} \/ InvoicesOf(d) = {}

\* C4 amended: create_mou never reuses a Deal.  Every create_mou call inserts
\* a Deal of its own and stores its Mou under that identifier, so no two Mous
\* reference the same Deal and no Mou references a Deal that create_invoice
\* inserted.  (create_invoice does reuse a Deal that create_mou inserted.)
C4_MouDealIsItsOwn ==
    /\ [](\A i, j \in 1 .. Len(mou) : mou[i].deal_id = mou[j].deal_id => i = j)
    /\ [][\A t \in Threads :
            /\ (pc[t] = "idle" /\ loc'[t].op = "create_mou")
                => OneMore(deal, deal') /\ loc'[t].deal_id = Some(Len(deal'))
            /\ (pc[t] = "cm_mou" /\ pc'[t] = "done")
                => /\ OneMore(mou, mou')
                   /\ mou'[Len(mou')].deal_id \in loc[t].deal_id
                   /\ MousOf(mou'[Len(mou')].deal_id) = {}]_vars

C4_Witness ==
    /\ Len(deal) = 2 /\ Len(mou) = 1 /\ Len(invoice) = 1
    /\ deal[1] = deal[2]
    /\ invoice[1].deal_id = 1
    /\ mou[1].deal_id = 2

\* ------------------------------------------------------------ C5
C5_NotFound(t) ==
    /\ pc'[t] = "done"
    /\ resp'[t].code = Some(404)
    /\ invoice' = invoice
    /\ receipt' = receipt

C5_Update(t) ==
    /\ \A i \in 1 .. Len(invoice) :
          invoice[i].view_token \in loc[t].token => invoice'[i].status = "paid"
    /\ Len(invoice') = Len(invoice)
    /\ receipt' = receipt

C5_Insert(t) ==
    /\ OneMore(receipt, receipt')
    /\ invoice' = invoice
    /\ receipt'[Len(receipt')].invoice_token \in loc[t].token
    /\ receipt'[Len(receipt')].amount_paid \in loc[t].amount_received
    /\ \A i \in InvoicesWith(receipt'[Len(receipt')].invoice_token) :
          /\ invoice[i].status = "paid"
          /\ receipt'[Len(receipt')].deal_id = invoice[i].deal_id
    /\ InvoicesWith(receipt'[Len(receipt')].invoice_token) # {}
    /\ resp'[t].code = Some(200)
    /\ resp'[t].status = "paid"
    /\ resp'[t].id = Some(Len(receipt'))

\* C5: mark_invoice_paid on the token of an Invoice sets that Invoice's status
\* to "paid" and then inserts exactly one Receipt, with the token, the
\* Invoice's deal_id and the request's amount_received, and answers with the
\* new Receipt's identifier; on a token of no Invoice it answers 404 and
\* changes neither Invoices nor Receipts.
C5_MarkPaid ==
    [][\A t \in Threads :
          /\ (pc[t] = "idle" /\ loc'[t].op = "mark_invoice_paid")
              => IF \E k \in loc'[t].token : InvoicesWith(k) # {}
                 THEN pc'[t] = "mp_update" /\ invoice' = invoice /\ receipt' = receipt
                 ELSE C5_NotFound(t)
          /\ (pc[t] = "mp_update" /\ pc'[t] = "mp_insert") => C5_Update(t)
          /\ (pc[t] = "mp_insert" /\ pc'[t] = "done") => C5_Insert(t)]_vars

C5_Witness ==
    \E t \in Threads :
        /\ Answered(t, "mark_invoice_paid")
        /\ resp[t].id = Some(2)
        /\ Len(receipt) = 2
        /\ receipt[1].invoice_token = receipt[2].invoice_token
        /\ receipt[1].amount_paid # receipt[2].amount_paid

\* ------------------------------------------------------------ C6
\* C6: sign_mou with agree = false answers 400, whether or not the token is
\* an Mou's, and leaves all four collections unchanged.
C6_SignNeedsAgreement ==
    [][\A t \in Threads :
          (pc[t] = "idle" /\ loc'[t].op = "sign_mou" /\ ~loc'[t].agree)
              => /\ pc'[t] = "done"
                 /\ resp'[t].code = Some(400)
                 /\ store' = store]_vars

C6_Witness ==
    \E t \in Threads :
        /\ pc[t] = "done" /\ loc[t].op = "sign_mou" /\ ~loc[t].agree
        /\ resp[t].code = Some(400)
        /\ \E k \in loc[t].token : FindMou(k) # 0

\* ------------------------------------------------------------ C7
Signature(m) ==
    <<m.signed_at, m.client_signature_name, m.client_signature_title>>

\* C7: an Mou's signature fields are unset until the first successful
\* sign_mou on its token, and once set no later step changes them.
C7_SignedOnce ==
    [][\A i \in 1 .. Len(mou) :
          /\ mou[i].status = "sent" => Signature(mou[i]) = <<None, None, None>>
          /\ mou[i].signed_at # None => Signature(mou'[i]) = Signature(mou[i])]_vars

\* ------------------------------------------------------------ C8
StatusDomain ==
    /\ \A i \in 1 .. Len(mou) : mou[i].status \in {"sent", "signed"}
    /\ \A i \in 1 .. Len(invoice) : invoice[i].status \in {"sent", "paid"}

StatusForward ==
    /\ Len(mou') >= Len(mou)
    /\ Len(invoice') >= Len(invoice)
    /\ \A i \in 1 .. Len(mou') :
          IF i > Len(mou) THEN mou'[i].status = "sent"
          ELSE mou'[i].status # mou[i].status
                 => mou[i].status = "sent" /\ mou'[i].status = "signed"
    /\ \A i \in 1 .. Len(invoice') :
          IF i > Len(invoice) THEN invoice'[i].status = "sent"
          ELSE invoice'[i].status # invoice[i].status
                 => invoice[i].status = "sent" /\ invoice'[i].status = "paid"

\* C8: every Mou and every Invoice is stored with status "sent"; the only
\* status changes are sent -> signed for an Mou and sent -> paid for an
\* Invoice, so statuses stay in {sent, signed} and {sent, paid} and a signed
\* Mou or paid Invoice never returns to "sent".
C8_StatusOnlyForward == []StatusDomain /\ [][StatusForward]_vars

C8_Witness ==
    /\ \E i \in 1 .. Len(mou) : mou[i].status = "signed"
    /\ \E i \in 1 .. Len(invoice) : invoice[i].status = "paid"
    /\ \E i \in 1 .. Len(invoice) : invoice[i].status = "sent"

\* ------------------------------------------------------------ C9
\* Invoice i is paid and no Receipt carries its token.
PaidWithoutReceipt(i) ==
    invoice[i].status = "paid" /\ ReceiptsOf(invoice[i].view_token) = {}

\* A mark_invoice_paid on tok stands between its update and its insert.
BetweenUpdateAndInsert(tok) ==
    \E t \in Threads : pc[t] = "mp_insert" /\ loc[t].token = Some(tok)

\* Invoice i is paid without a Receipt and no running request will add one.
Stranded(i) ==
    PaidWithoutReceipt(i) /\ ~BetweenUpdateAndInsert(invoice[i].view_token)

C9_Between ==
    /\ \A t \in Threads : pc[t] = "mp_insert" =>
          \E i \in 1 .. Len(invoice) :
              invoice[i].view_token \in loc[t].token /\ invoice[i].status = "paid"
    /\ \A d \in 1 .. Len(deal) :
          LET i == SnapshotInvoice(d)
              b == SnapshotBody(deal[d].client_name, deal[d].project_name, d)
          IN (i # 0 /\ PaidWithoutReceipt(i))
                => /\ b.invoice.status = "Paid"
                   /\ b.receipt_available = FALSE
                   /\ MousOf(d) # {} => b.next_step = Rule3

C9_OnlyByInterruption ==
    \A i \in 1 .. Len(invoice) :
        (Stranded(i)' /\ ~Stranded(i))
            => \E t \in Threads :
                  /\ pc[t] = "mp_insert"
                  /\ loc[t].token = Some(invoice[i].view_token)
                  /\ pc'[t] = "idle"
                  /\ store' = store

C10_References ==
    /\ \A r \in 1 .. Len(receipt) :
          \E i \in 1 .. Len(invoice) :
              /\ invoice[i].view_token = receipt[r].invoice_token
              /\ invoice[i].status = "paid"
              /\ invoice[i].deal_id = receipt[r].deal_id
    /\ \A i \in 1 .. Len(mou) : mou[i].deal_id \in 1 .. Len(deal)
    /\ \A i \in 1 .. Len(invoice) : invoice[i].deal_id \in 1 .. Len(deal)

C10_Witness ==
    /\ Len(receipt) >= 1
    /\ \E t \in Threads : pc[t] = "mp_insert"
    /\ \E t \in Threads : pc[t] = "idle" /\ Len(deal) = 1

====
